---- MODULE Spec2Model ----
(***************************************************************************)
(* Model of frc::ChassisSpeeds and frc::SwerveModuleState                   *)
(* (wpilibc/src/main/native/include/frc/kinematics).                        *)
(*                                                                          *)
(* A C++ double is modelled as an exact rational [n, d] in lowest terms     *)
(* with d > 0; the products and sums of ChassisSpeeds.h:50-51 are computed  *)
(* exactly (IEEE-754 rounding is not modelled).  A Rotation2d is the pair   *)
(* of its cosine and sine.  The headings used are points of the unit        *)
(* circle with rational coordinates, so cos^2 + sin^2 = 1 holds exactly.    *)
(***************************************************************************)
EXTENDS Integers, Sequences, FiniteSets, TLC

\* ------------------------------------------------------------------ bounds
\* Largest magnitude of vx, vy, vtheta drawn by a sequential caller.
MaxV == 1
\* Number of threads that invoke FromFieldRelativeSpeeds concurrently.
NumThreads == 2
\* Largest number of default-constructed objects of each struct.
MaxObjs == 1

\* ------------------------------------------------------- double arithmetic
Abs(i) == IF i < 0 THEN -i ELSE i

RECURSIVE GCD(_, _)
GCD(a, b) == IF b = 0 THEN a ELSE GCD(b, a % b)

\* The rational n/d (d > 0) in lowest terms.
Reduce(n, d) ==
    LET g == GCD(Abs(n), d)
    IN  [n |-> n \div g, d |-> d \div g]

\* An integer literal converted to double (the "= 0" initializers).
ToDouble(i) == [n |-> i, d |-> 1]

\* double operator*
DoubleMul(a, b) == Reduce(a.n * b.n, a.d * b.d)

\* double operator+
DoubleAdd(a, b) == Reduce(a.n * b.d + b.n * a.d, a.d * b.d)

\* double unary operator-
DoubleNeg(a) == [n |-> -a.n, d |-> a.d]

\* -------------------------------------------------------------- Rotation2d
\* Rotation2d(): the zero rotation.
Rotation2d == [m_cos |-> ToDouble(1), m_sin |-> ToDouble(0)]

\* Rotation2d::Cos()
Cos(r) == r.m_cos

\* Rotation2d::Sin()
Sin(r) == r.m_sin

\* A Rotation2d with cosine c/q and sine s/q.
Heading(c, s, q) == [m_cos |-> Reduce(c, q), m_sin |-> Reduce(s, q)]

\* The Rotation2d objects callers pass by const reference:
\* 0, 90, 180 and 270 degrees, atan2(4,3), atan2(3,-4) and atan2(-12,5).
Headings ==
    << Heading(1, 0, 1), Heading(0, 1, 1), Heading(-1, 0, 1), Heading(0, -1, 1),
       Heading(3, 4, 5), Heading(-4, 3, 5), Heading(5, -12, 13) >>

RotIds == 1 .. Len(Headings)

\* ----------------------------------------------------------- ChassisSpeeds
\* struct ChassisSpeeds { double dx = 0; double dy = 0; double dtheta = 0; }
ChassisSpeedsDefaultNonZero == [dx |-> ToDouble(0), dy |-> ToDouble(0), dtheta |-> ToDouble(1)]
ChassisSpeeds == [dx |-> ToDouble(0), dy |-> ToDouble(0), dtheta |-> ToDouble(0)]

\* struct SwerveModuleState { double speed = 0; Rotation2d angle; }
SwerveModuleState == [speed |-> ToDouble(0), angle |-> Rotation2d]

\* First element of the returned initializer list (ChassisSpeeds.h:50).
DxExprSwapped(vx, vy, robotAngle) ==
    DoubleAdd(DoubleMul(vx, Sin(robotAngle)), DoubleMul(vy, Cos(robotAngle)))
DxExprCosOnly(vx, vy, robotAngle) ==
    DoubleAdd(DoubleMul(vx, Cos(robotAngle)), DoubleMul(vy, Cos(robotAngle)))
DxExpr(vx, vy, robotAngle) ==
    DoubleAdd(DoubleMul(vx, Cos(robotAngle)), DoubleMul(vy, Sin(robotAngle)))

\* Second element of the returned initializer list (ChassisSpeeds.h:51).
DyExprForward(vx, vy, robotAngle) ==
    DoubleAdd(DoubleMul(vx, Sin(robotAngle)), DoubleMul(vy, Cos(robotAngle)))
DyExpr(vx, vy, robotAngle) ==
    DoubleAdd(DoubleMul(DoubleNeg(vx), Sin(robotAngle)), DoubleMul(vy, Cos(robotAngle)))

\* Third element of the returned initializer list (ChassisSpeeds.h:51).
DthetaExprScaled(vtheta, robotAngle) == DoubleMul(vtheta, Cos(robotAngle))
DthetaExpr(vtheta, robotAngle) == vtheta

\* One whole invocation, run alone.
FromFieldRelativeSpeeds(vx, vy, vtheta, robotAngle) ==
    [dx |-> DxExpr(vx, vy, robotAngle),
     dy |-> DyExpr(vx, vy, robotAngle),
     dtheta |-> DthetaExpr(vtheta, robotAngle)]

\* ------------------------------------------------------------------- state
VARIABLES
    rotations,  \* the Rotation2d objects, by identity (const Rotation2d&)
    chassis,    \* the default-constructed ChassisSpeeds objects
    modules,    \* the default-constructed SwerveModuleState objects
    pc,         \* per thread: position in FromFieldRelativeSpeeds
    args,       \* per thread: the arguments of its invocation
    tmp,        \* per thread: the initializer-list elements evaluated so far
    result      \* per thread: the returned ChassisSpeeds

vars == << rotations, chassis, modules, pc, args, tmp, result >>

Threads == 1 .. NumThreads

\* The thread of a sequential caller.
MainThread == 1

\* Values a sequential caller passes for vx, vy and vtheta.
Vals == { ToDouble(i) : i \in -MaxV .. MaxV }

\* Argument lists used by concurrent callers.
ConcArgs ==
    { [vx |-> ToDouble(1), vy |-> ToDouble(0), vtheta |-> ToDouble(0), robotAngle |-> 2],
      [vx |-> ToDouble(1), vy |-> ToDouble(-2), vtheta |-> ToDouble(1), robotAngle |-> 5],
      [vx |-> ToDouble(-1), vy |-> ToDouble(2), vtheta |-> ToDouble(-1), robotAngle |-> 5],
      [vx |-> ToDouble(2), vy |-> ToDouble(1), vtheta |-> ToDouble(1), robotAngle |-> 6],
      [vx |-> ToDouble(0), vy |-> ToDouble(-1), vtheta |-> ToDouble(2), robotAngle |-> 7] }

NoArgs == [vx |-> ToDouble(0), vy |-> ToDouble(0), vtheta |-> ToDouble(0), robotAngle |-> 1]
NoValue == [none |-> TRUE]
NoTmp == [dx |-> NoValue, dy |-> NoValue]

Init ==
    /\ rotations = Headings
    /\ chassis = << >>
    /\ modules = << >>
    /\ pc = [t \in Threads |-> "idle"]
    /\ args = [t \in Threads |-> NoArgs]
    /\ tmp = [t \in Threads |-> NoTmp]
    /\ result = [t \in Threads |-> NoValue]

\* ----------------------------------------------------------------- actions
\* ChassisSpeeds speeds;   (default member initializers)
ConstructChassisSpeeds ==
    /\ Len(chassis) < MaxObjs
    /\ chassis' = Append(chassis, ChassisSpeeds)
    /\ UNCHANGED << rotations, modules, pc, args, tmp, result >>

\* SwerveModuleState state;   (default member initializers)
ConstructSwerveModuleState ==
    /\ Len(modules) < MaxObjs
    /\ modules' = Append(modules, SwerveModuleState)
    /\ UNCHANGED << rotations, chassis, pc, args, tmp, result >>

\* Entry: the parameters are bound; robotAngle is a reference.
Call(t, vx, vy, vtheta, robotAngle) ==
    /\ pc[t] \in {"idle", "done"}
    /\ pc' = [pc EXCEPT ![t] = "dx"]
    /\ args' = [args EXCEPT ![t] =
                  [vx |-> vx, vy |-> vy, vtheta |-> vtheta, robotAngle |-> robotAngle]]
    /\ tmp' = [tmp EXCEPT ![t] = NoTmp]
    /\ result' = [result EXCEPT ![t] = NoValue]
    /\ UNCHANGED << rotations, chassis, modules >>

\* vx * robotAngle.Cos() + vy * robotAngle.Sin()
EvalDxStatic(t) ==
    /\ pc[t] = "dx"
    /\ tmp' = [tmp EXCEPT ![MainThread].dx =
                  DxExpr(args[t].vx, args[t].vy, rotations[args[t].robotAngle])]
    /\ pc' = [pc EXCEPT ![t] = "dy"]
    /\ UNCHANGED << rotations, chassis, modules, args, result >>
EvalDxValidating(t) ==
    /\ pc[t] = "dx"
    /\ args[t].vx.n >= 0
    /\ tmp' = [tmp EXCEPT ![t].dx =
                  DxExpr(args[t].vx, args[t].vy, rotations[args[t].robotAngle])]
    /\ pc' = [pc EXCEPT ![t] = "dy"]
    /\ UNCHANGED << rotations, chassis, modules, args, result >>
EvalDx(t) ==
    /\ pc[t] = "dx"
    /\ tmp' = [tmp EXCEPT ![t].dx =
                  DxExpr(args[t].vx, args[t].vy, rotations[args[t].robotAngle])]
    /\ pc' = [pc EXCEPT ![t] = "dy"]
    /\ UNCHANGED << rotations, chassis, modules, args, result >>

\* -vx * robotAngle.Sin() + vy * robotAngle.Cos()
EvalDy(t) ==
    /\ pc[t] = "dy"
    /\ tmp' = [tmp EXCEPT ![t].dy =
                  DyExpr(args[t].vx, args[t].vy, rotations[args[t].robotAngle])]
    /\ pc' = [pc EXCEPT ![t] = "ret"]
    /\ UNCHANGED << rotations, chassis, modules, args, result >>

\* return {dx, dy, vtheta};
Return(t) ==
    /\ pc[t] = "ret"
    /\ result' = [result EXCEPT ![t] =
                     [dx |-> tmp[t].dx, dy |-> tmp[t].dy,
                      dtheta |-> DthetaExpr(args[t].vtheta, rotations[args[t].robotAngle])]]
    /\ tmp' = [tmp EXCEPT ![t] = NoTmp]
    /\ pc' = [pc EXCEPT ![t] = "done"]
    /\ UNCHANGED << rotations, chassis, modules, args >>

\* One sequential caller, every argument list within the bounds.
Next ==
    \/ ConstructChassisSpeeds
    \/ ConstructSwerveModuleState
    \/ \E vx \in Vals, vy \in Vals, vtheta \in Vals, r \in RotIds :
           Call(MainThread, vx, vy, vtheta, r)
    \/ EvalDx(MainThread)
    \/ EvalDy(MainThread)
    \/ Return(MainThread)

Spec == Init /\ [][Next]_vars

\* Concurrent callers with no synchronization.
NextConc ==
    \/ ConstructChassisSpeeds
    \/ ConstructSwerveModuleState
    \/ \E t \in Threads :
           \/ \E a \in ConcArgs : Call(t, a.vx, a.vy, a.vtheta, a.robotAngle)
           \/ EvalDx(t)
           \/ EvalDy(t)
           \/ Return(t)

SpecConc == Init /\ [][NextConc]_vars

\* ------------------------------------------------------------- properties
Done(t) == pc[t] = "done"
Zero == [n |-> 0, d |-> 1]
One == [n |-> 1, d |-> 1]
MinusOne == [n |-> -1, d |-> 1]
\* cosine and sine of the heading a thread's invocation refers to
ArgCos(t) == rotations[args[t].robotAngle].m_cos
ArgSin(t) == rotations[args[t].robotAngle].m_sin
DoubleSub(a, b) == DoubleAdd(a, DoubleNeg(b))
Square(a) == DoubleMul(a, a)

\* C1: a finished invocation returned dx = vx*c + vy*s and dy = -vx*s + vy*c,
\* the rotation of (vx, vy) by -robotAngle; whenever the two rotations differ
\* (s # 0 and (vx, vy) # 0) the result is not the rotation by +robotAngle.
C1_InverseRotation ==
    \A t \in Threads : Done(t) =>
        LET vx == args[t].vx
            vy == args[t].vy
            c == ArgCos(t)
            s == ArgSin(t)
        IN  /\ result[t].dx = DoubleAdd(DoubleMul(vx, c), DoubleMul(vy, s))
            /\ result[t].dy = DoubleSub(DoubleMul(vy, c), DoubleMul(vx, s))
            /\ (s # Zero /\ << vx, vy >> # << Zero, Zero >>) =>
                   << result[t].dx, result[t].dy >> #
                   << DoubleSub(DoubleMul(vx, c), DoubleMul(vy, s)),
                      DoubleAdd(DoubleMul(vx, s), DoubleMul(vy, c)) >>

C1_Witness ==
    \E t \in Threads :
        /\ Done(t)
        /\ ArgCos(t) = [n |-> 3, d |-> 5] /\ ArgSin(t) = [n |-> 4, d |-> 5]
        /\ args[t].vx = One /\ args[t].vy = MinusOne
        /\ result[t].dx = [n |-> -1, d |-> 5] /\ result[t].dy = [n |-> -7, d |-> 5]

\* C2: the dtheta of a finished invocation's result is its input vtheta,
\* whatever the heading and whatever vx and vy.
C2_DthetaUnchanged ==
    \A t \in Threads : Done(t) => result[t].dtheta = args[t].vtheta

C2_Witness ==
    \E t \in Threads :
        /\ Done(t)
        /\ args[t].vtheta = MinusOne /\ result[t].dtheta = MinusOne
        /\ ArgCos(t) = [n |-> -4, d |-> 5]
        /\ args[t].vx = One /\ args[t].vy = One

\* C3: with heading 0 (cos = 1, sin = 0) the result is exactly
\* {dx = vx, dy = vy, dtheta = vtheta}.
C3_IdentityHeading ==
    \A t \in Threads : (Done(t) /\ ArgCos(t) = One /\ ArgSin(t) = Zero) =>
        result[t] = [dx |-> args[t].vx, dy |-> args[t].vy, dtheta |-> args[t].vtheta]

C3_Witness ==
    \E t \in Threads :
        /\ Done(t) /\ ArgCos(t) = One /\ ArgSin(t) = Zero
        /\ args[t].vx = MinusOne /\ args[t].vy = One /\ args[t].vtheta = One
        /\ result[t] = [dx |-> MinusOne, dy |-> One, dtheta |-> One]

\* C4: FromFieldRelativeSpeeds(1, 0, 0, heading with cos = 0, sin = 1) returns
\* dx = 0, dy = -1, dtheta = 0.
C4_QuarterTurn ==
    \A t \in Threads :
        (/\ Done(t)
         /\ ArgCos(t) = Zero /\ ArgSin(t) = One
         /\ args[t].vx = One /\ args[t].vy = Zero /\ args[t].vtheta = Zero) =>
        result[t] = [dx |-> Zero, dy |-> MinusOne, dtheta |-> Zero]

C4_Witness ==
    \E t \in Threads :
        /\ Done(t)
        /\ ArgCos(t) = Zero /\ ArgSin(t) = One
        /\ args[t].vx = One /\ args[t].vy = Zero /\ args[t].vtheta = Zero
        /\ result[t].dy.n < 0

\* C5: FromFieldRelativeSpeeds(1, 0, 0, heading with cos = -1, sin = 0)
\* returns dx = -1, dy = 0, dtheta = 0.
C5_HalfTurn ==
    \A t \in Threads :
        (/\ Done(t)
         /\ ArgCos(t) = MinusOne /\ ArgSin(t) = Zero
         /\ args[t].vx = One /\ args[t].vy = Zero /\ args[t].vtheta = Zero) =>
        result[t] = [dx |-> MinusOne, dy |-> Zero, dtheta |-> Zero]

C5_Witness ==
    \E t \in Threads :
        /\ Done(t)
        /\ ArgCos(t) = MinusOne /\ ArgSin(t) = Zero
        /\ args[t].vx = One /\ args[t].vy = Zero /\ args[t].vtheta = Zero
        /\ result[t].dx.n < 0

C8_DefaultConstruction ==
    /\ \A i \in 1 .. Len(chassis) :
           chassis[i].dx = Zero /\ chassis[i].dy = Zero /\ chassis[i].dtheta = Zero
    /\ \A i \in 1 .. Len(modules) :
           /\ modules[i].speed = Zero
           /\ modules[i].angle.m_cos = One /\ modules[i].angle.m_sin = Zero

C8_Witness == Len(chassis) >= 1 /\ Len(modules) >= 1

\* C9: a step of any thread inside FromFieldRelativeSpeeds leaves the
\* Rotation2d objects, the existing ChassisSpeeds and SwerveModuleState
\* objects and every other thread's arguments, temporaries and result
\* unchanged, and under every interleaving an invocation that returns,
\* returns what the same invocation returns when run alone.
C9_PureUnderInterleaving ==
    [][\A t \in Threads :
          /\ pc'[t] # pc[t] =>
                /\ rotations' = rotations
                /\ chassis' = chassis
                /\ modules' = modules
                /\ \A u \in Threads \ {t} :
                       /\ args'[u] = args[u]
                       /\ tmp'[u] = tmp[u]
                       /\ result'[u] = result[u]
          /\ (pc[t] \in {"dx", "dy", "ret"}) => args'[t] = args[t]
          /\ pc'[t] = "done" =>
                result'[t] = FromFieldRelativeSpeeds(args'[t].vx, args'[t].vy,
                                 args'[t].vtheta, Headings[args'[t].robotAngle])
      ]_vars

C9_Witness ==
    \E t \in Threads, u \in Threads :
        /\ t # u
        /\ Done(t) /\ pc[u] = "ret"
        /\ args[t].robotAngle = args[u].robotAngle
        /\ args[t] # args[u]
        /\ result[t] = [dx |-> MinusOne, dy |-> [n |-> -2, d |-> 1], dtheta |-> One]

\* C10: no input is rejected and no invocation ends in an error: a new
\* invocation can start with every argument list, every started invocation
\* can take its next step, and a finished one holds a ChassisSpeeds whose
\* components are the unclamped, unnormalized values of the expressions.
C10_TotalNoValidation ==
    \A t \in Threads :
        /\ pc[t] \in {"idle", "dx", "dy", "ret", "done"}
        /\ pc[t] \in {"idle", "done"} =>
               \A vx \in Vals, vy \in Vals, vtheta \in Vals, r \in RotIds :
                   ENABLED Call(t, vx, vy, vtheta, r)
        /\ pc[t] = "dx" => ENABLED EvalDx(t)
        /\ pc[t] = "dy" => ENABLED EvalDy(t)
        /\ pc[t] = "ret" => ENABLED Return(t)
        /\ Done(t) =>
               /\ result[t] # NoValue
               /\ result[t].dx = DxExpr(args[t].vx, args[t].vy, rotations[args[t].robotAngle])
               /\ result[t].dy = DyExpr(args[t].vx, args[t].vy, rotations[args[t].robotAngle])
               /\ result[t].dtheta = args[t].vtheta

C10_Witness ==
    \E t \in Threads :
        /\ Done(t)
        /\ args[t].vx = MinusOne /\ args[t].vy = MinusOne /\ args[t].vtheta = Zero
        /\ ArgCos(t) = [n |-> 3, d |-> 5] /\ ArgSin(t) = [n |-> 4, d |-> 5]
        /\ result[t].dx = [n |-> -7, d |-> 5]
        /\ Abs(result[t].dx.n) > MaxV * result[t].dx.d

====
